---- MODULE Spec2Model ----
(***************************************************************************)
(* A model of src/components/FirepadEditor.tsx (the FirepadEditor          *)
(* component: one collaborative session per editor pane) and of the Home   *)
(* page that hosts the code pane, the input pane and the run button.       *)
(*                                                                         *)
(* One action is one JavaScript task: an event handler together with the   *)
(* React commit it causes (effect cleanup, effect, re-render).  The Yjs    *)
(* document, the websocket provider and the awareness object are the       *)
(* environment: their events are drawn from small sets.                    *)
(***************************************************************************)
EXTENDS Integers, Sequences, FiniteSets, TLC

\* ------------------------------------------------------------------ bounds
MaxSessions == 3
MaxStyles == 3
MaxRuns == 2

\* ------------------------------------------------------- values of the code
Undefined == "undefined"
Null == "null"

\* type Language = 'cpp' | 'java' | 'py' (line 213)
Languages == {"cpp", "java", "py"}
FileIds == {"f1", "f2"}
UserKeys == {"u1"}
Editors == {"e1", "e2"}
Statuses == {"disconnected", "connecting", "connected"}
Local == 0
Remotes == {1, 2}

\* window.location.href as a sequence of tokens; "?" and "#" are the
\* characters, every other token is a run of other characters.
Page == "https://ide/f1"
Hrefs == { <<Page>>,
           <<Page, "?", "lang=", "java">>,
           <<Page, "?", "lang=", "rust">>,
           <<Page, "?", "lang=", "py", "#", "L3">>,
           <<Page, "#", "L3">> }

VARIABLES
  \* --- the code pane's FirepadEditor: props, atoms and React state
  mounted,           \* the page (and with it the pane) is mounted
  firebaseRef,       \* prop firebaseRef: its key, or Undefined
  editor,            \* state editor: an editor instance, or Null
  userRef,           \* atom authenticatedUserRefAtom: its key, or Null
  fileId,            \* atom fileIdAtom: the id, or Null
  defaultValue,      \* prop defaultValue
  connectionStatus,  \* state connectionStatus
  isSynced,          \* state isSynced
  \* --- the session the last effect run created (the cleanup's closure)
  session,           \* [id, documentId, defaultValue], id 0: the effect returned early
  live,              \* ids of the sessions created and not destroyed
  nextId,            \* id of the next session
  ydoc,              \* the live session's Y.Doc
  lastSync,          \* value of the last 'sync' event of the live session
  lastOp,            \* the handler that ran last
  \* --- presence
  awareness,         \* provider.awareness.getStates(): client id -> state
  styles,            \* the <style> rules appended to document.body
  event,             \* the last awareness 'change' event delivered
  \* --- Home
  lang,              \* reducer state lang
  href,              \* window.location.href
  routerReady,       \* router.isReady
  queryLang,         \* router.query.lang
  baseRef,           \* useFirebaseRef() is defined
  inputEditor,       \* inputEditor.current is set
  isRunning,         \* state isRunning
  result,            \* state result: Null or a judge result
  pending,           \* the fetches in flight: [id, language_id, overlapped],
                     \* overlapped: another fetch was in flight at some time
  runs,              \* number of requests sent
  \* --- two clients of the relay
  clients,           \* client -> its session and document
  server             \* room -> the relay's copy of the document

editorVars == <<mounted, firebaseRef, editor, userRef, fileId, defaultValue,
                connectionStatus, isSynced, session, live, nextId, ydoc, lastSync,
                lastOp>>
presenceVars == <<awareness, styles, event>>
\* what a run of the effect (or its cleanup) writes
sessionVars == <<connectionStatus, isSynced, lastSync, ydoc, session, live, nextId,
                 awareness>>
\* the effect's dependencies, and defaultValue
depVars == <<firebaseRef, editor, userRef, fileId, defaultValue>>
homeVars == <<lang, href, routerReady, queryLang, baseRef, inputEditor>>
runVars == <<isRunning, result, pending, runs>>
roomVars == <<clients, server>>
vars == <<editorVars, presenceVars, homeVars, runVars, roomVars>>

\* ------------------------------------------------------------ the Y.Doc
\* A Y.Doc is the set of operations it has seen; merging two is their union.
\* flag: getMap('isInitialized').get('isInitialized') is true.
\* items: the inserts into getText('monaco'); an item is
\* [client, clock, content, seen], seen being the ids (<<client, clock>>) of the
\* items that were already in the text, to the right of the insert at position 0.
EmptyDoc == [flag |-> FALSE, items |-> {}]

Merge(d1, d2) == [flag |-> d1.flag \/ d2.flag, items |-> d1.items \cup d2.items]

ItemId(it) == <<it.client, it.clock>>

\* The order of the text: an insert at position 0 stands before what it saw;
\* concurrent inserts at the same place are ordered by client id.
Before(a, b) ==
  IF ItemId(b) \in a.seen THEN TRUE
  ELSE IF ItemId(a) \in b.seen THEN FALSE
  ELSE a.client < b.client \/ (a.client = b.client /\ a.clock > b.clock)

RECURSIVE TextOf(_)
TextOf(items) ==
  IF items = {} THEN <<>>
  ELSE LET first == CHOOSE a \in items : \A b \in items \ {a} : Before(a, b)
       IN <<first>> \o TextOf(items \ {first})

RECURSIVE Concat(_)
Concat(seq) == IF seq = <<>> THEN "" ELSE Head(seq).content \o Concat(Tail(seq))

\* monacoText.toString()
TextString(doc) == Concat(TextOf(doc.items))

\* monacoText.insert(0, content) by `client`; inserting '' inserts nothing.
Insert0(doc, client, content) ==
  IF content = "" THEN doc
  ELSE [doc EXCEPT !.items = @ \cup
          {[client |-> client,
            clock |-> Cardinality({i \in doc.items : i.client = client}),
            content |-> content,
            seen |-> {ItemId(i) : i \in doc.items}]}]

\* defaultValue ?? ''
OrEmpty(dv) == IF dv = Undefined THEN "" ELSE dv

\* The 'sync' handler's effect on the document (lines 127-134).
OnSyncDocNoFlagCheck(doc, synced, dv, client) ==
  IF synced
  THEN Insert0([doc EXCEPT !.flag = TRUE], client, OrEmpty(dv))
  ELSE doc

OnSyncDoc(doc, synced, dv, client) ==
  IF synced /\ ~doc.flag
  THEN Insert0([doc EXCEPT !.flag = TRUE], client, OrEmpty(dv))
  ELSE doc

\* ------------------------------------------------------- FirepadEditor
NoSession == [id |-> 0, documentId |-> "", defaultValue |-> Undefined]

NoAwareness == [i \in {Local} \cup Remotes |-> "absent"]

\* colorFromUserId(userRef.key) (line 69)
ColorFromUserId(key) == "red"

\* line 49: if (!firebaseRef || !editor || !userRef || !fileId) return;
EffectGuardNoRef(fr, ed, ur, fid) == ed # Null /\ ur # Null /\ fid # Null

EffectGuard(fr, ed, ur, fid) ==
  fr # Undefined /\ ed # Null /\ ur # Null /\ fid # Null

\* line 56: `${fileId}.${firebaseRef.key}`
DocumentIdNoKey(fid, key) == fid \o "."

DocumentId(fid, key) == fid \o "." \o key

\* lines 138-146: the cleanup the previous effect run returned, if it returned one.
CleanupNoDestroy ==
  IF session.id = 0
  THEN [live |-> live, connectionStatus |-> connectionStatus, isSynced |-> isSynced]
  ELSE [live |-> live, connectionStatus |-> "disconnected", isSynced |-> FALSE]

CleanupKeepsSynced ==
  IF session.id = 0
  THEN [live |-> live, connectionStatus |-> connectionStatus, isSynced |-> isSynced]
  ELSE [live |-> live \ {session.id}, connectionStatus |-> connectionStatus,
        isSynced |-> isSynced]

Cleanup ==
  IF session.id = 0
  THEN [live |-> live, connectionStatus |-> connectionStatus, isSynced |-> isSynced]
  ELSE [live |-> live \ {session.id}, connectionStatus |-> "disconnected",
        isSynced |-> FALSE]

\* lines 48-149: the cleanup of the previous run, then one run of the effect with
\* the dependencies (fr, ur, ed, fid) and the defaultValue of that render.
\* (Lines 51-54 do nothing here: Home passes path = lang, which is none of the
\* 'myfile.*' paths, so setLoading is not called.)
RunEffect(fr, ed, ur, fid, dv) ==
  LET c == Cleanup IN
  /\ connectionStatus' = c.connectionStatus
  /\ isSynced' = c.isSynced
  /\ lastSync' = "none"
  /\ ydoc' = EmptyDoc
  /\ IF EffectGuard(fr, ed, ur, fid)
     THEN /\ nextId <= MaxSessions
          /\ session' = [id |-> nextId, documentId |-> DocumentId(fid, fr),
                         defaultValue |-> dv]
          /\ live' = c.live \cup {nextId}
          /\ nextId' = nextId + 1
          /\ awareness' = [NoAwareness EXCEPT ![Local] = ColorFromUserId(ur)]
     ELSE /\ session' = NoSession
          /\ live' = c.live
          /\ nextId' = nextId
          /\ awareness' = NoAwareness

\* The effect runs again only when a dependency changed (line 149).
Commit(fr, ed, ur, fid, dv) ==
  /\ firebaseRef' = fr /\ editor' = ed /\ userRef' = ur /\ fileId' = fid
  /\ defaultValue' = dv
  /\ IF <<fr, ur, ed, fid>> # <<firebaseRef, userRef, editor, fileId>>
     THEN RunEffect(fr, ed, ur, fid, dv)
     ELSE UNCHANGED sessionVars

\* lines 367-370: the options Home passes set no readOnly
PropsReadOnly == FALSE

\* lines 151-156: editorOptions.readOnly
EditorReadOnly == IF ~isSynced THEN TRUE ELSE PropsReadOnly

\* ---------------------------------------------------------------- Home
\* lines 295-303 and 379: firebaseRefs[lang], as the key of the child reference
FirebaseRefs(base, l) == IF base THEN "editor-" \o l ELSE Undefined

PaneKeys == {FirebaseRefs(TRUE, l) : l \in Languages} \cup {"input"}

\* line 378: defaultCode[lang]
DefaultCode(l) == "//" \o l

\* href.split('?')[0] (line 226)
RECURSIVE BeforeQuestion(_)
BeforeQuestion(h) ==
  IF h = <<>> \/ Head(h) = "?" THEN <<>>
  ELSE <<Head(h)>> \o BeforeQuestion(Tail(h))

\* lines 223-227: the URL the reducer installs
ReducerHref(h, next) == BeforeQuestion(h) \o <<"?", "lang=", next>>

\* window.location.search: from the first "?" to the first "#" after it; empty
\* when a "#" comes first (the "?" is then part of the fragment).
RECURSIVE UpToHash(_)
UpToHash(h) ==
  IF h = <<>> \/ Head(h) = "#" THEN <<>>
  ELSE <<Head(h)>> \o UpToHash(Tail(h))

RECURSIVE Search(_)
Search(h) ==
  IF h = <<>> \/ Head(h) = "#" THEN <<>>
  ELSE IF Head(h) = "?" THEN UpToHash(h)
  ELSE Search(Tail(h))

\* router.query.lang of a page opened at h: the value of a query string ?lang=<v>
QueryLang(h) ==
  LET q == Search(h) IN
  IF Len(q) = 3 /\ q[1] = "?" /\ q[2] = "lang=" THEN q[3] ELSE Undefined

\* lines 233-237
ValidLang(q) == q = "cpp" \/ q = "java" \/ q = "py"

\* ------------------------------------------------------------- actions
\* The panes the clients open, all of file f1.
RoomPanes == {"editor-cpp", "input"}
Rooms == {DocumentId("f1", k) : k \in RoomPanes}

Init ==
  /\ mounted = FALSE
  /\ firebaseRef = Undefined /\ editor = Null /\ userRef = Null /\ fileId = Null
  /\ defaultValue = DefaultCode("cpp")
  /\ connectionStatus = "disconnected" /\ isSynced = FALSE
  /\ session = NoSession /\ live = {} /\ nextId = 1
  /\ ydoc = EmptyDoc /\ lastSync = "none" /\ lastOp = "init"
  /\ awareness = NoAwareness /\ styles = <<>>
  /\ event = [added |-> <<>>, others |-> FALSE]
  /\ lang = "cpp" /\ href = <<Page>> /\ routerReady = FALSE
  /\ queryLang = Undefined /\ baseRef = FALSE /\ inputEditor = FALSE
  /\ isRunning = FALSE /\ result = Null /\ pending = {} /\ runs = 0
  /\ clients = [c \in Remotes |-> [room |-> "", doc |-> EmptyDoc, dv |-> ""]]
  /\ server = [r \in Rooms |-> EmptyDoc]

\* lines 232-237: the router effect dispatches router.query.lang
Adopts(ready, q) == ready /\ ValidLang(q)

\* The page is opened at URL h: Home and its panes mount with fresh state and
\* their effects run (the pane's with editor = null, the router's).
Mount(h, ready, base) ==
  /\ ~mounted
  /\ mounted' = TRUE
  /\ queryLang' = QueryLang(h) /\ routerReady' = ready /\ baseRef' = base
  /\ lang' = IF Adopts(ready, queryLang') THEN queryLang' ELSE "cpp"
  /\ href' = IF Adopts(ready, queryLang') THEN ReducerHref(h, queryLang') ELSE h
  /\ inputEditor' = FALSE
  /\ isRunning' = FALSE /\ result' = Null /\ pending' = {} /\ runs' = 0
  /\ firebaseRef' = FirebaseRefs(base, lang') /\ editor' = Null
  /\ defaultValue' = DefaultCode(lang')
  /\ RunEffect(firebaseRef', Null, userRef, fileId, defaultValue')
  /\ lastOp' = "mount"
  /\ UNCHANGED <<userRef, fileId, styles, event, roomVars>>

\* lines 170-173 and 371-377: the code editor mounted
OnMount(e) ==
  /\ mounted /\ e # editor
  /\ Commit(firebaseRef, e, userRef, fileId, defaultValue)
  /\ lastOp' = "other"
  /\ UNCHANGED <<mounted, styles, event, homeVars, runVars, roomVars>>

\* lines 404-409: the input editor mounted
InputOnMount ==
  /\ mounted /\ ~inputEditor
  /\ inputEditor' = TRUE
  /\ lastOp' = "other"
  /\ UNCHANGED <<mounted, depVars, sessionVars, styles, event, lang, href,
                 routerReady, queryLang, baseRef, runVars, roomVars>>

\* lines 222-229: dispatching `next` to the lang reducer, and the commit that
\* follows (lines 361-380: the code pane's props follow lang)
SetLang(next) ==
  /\ lang' = next
  /\ href' = ReducerHref(href, next)
  /\ Commit(FirebaseRefs(baseRef, next), editor, userRef, fileId, DefaultCode(next))

\* line 358: onTabSelect
TabSelect(tab) ==
  /\ mounted
  /\ SetLang(tab)
  /\ lastOp' = "tab"
  /\ UNCHANGED <<mounted, styles, event, routerReady, queryLang, baseRef,
                 inputEditor, runVars, roomVars>>

\* lines 231-243: router.isReady turns true
RouterReady ==
  /\ mounted /\ ~routerReady
  /\ routerReady' = TRUE
  /\ IF Adopts(TRUE, queryLang)
     THEN SetLang(queryLang)
     ELSE UNCHANGED <<lang, href, depVars, sessionVars>>
  /\ lastOp' = "router"
  /\ UNCHANGED <<mounted, styles, event, queryLang, baseRef, inputEditor, runVars,
                 roomVars>>

\* line 294: useFirebaseRef() returns another value
SetBaseRef(base) ==
  /\ mounted /\ base # baseRef
  /\ baseRef' = base
  /\ Commit(FirebaseRefs(base, lang), editor, userRef, fileId, defaultValue)
  /\ lastOp' = "other"
  /\ UNCHANGED <<mounted, styles, event, lang, href, routerReady, queryLang,
                 inputEditor, runVars, roomVars>>

\* lines 38-39: an atom the pane reads changes (sign-in, sign-out, another file)
SetAtoms(ur, fid) ==
  /\ <<ur, fid>> # <<userRef, fileId>>
  /\ IF mounted
     THEN Commit(firebaseRef, editor, ur, fid, defaultValue)
     ELSE /\ userRef' = ur /\ fileId' = fid
          /\ UNCHANGED <<firebaseRef, editor, defaultValue, sessionVars>>
  /\ lastOp' = "other"
  /\ UNCHANGED <<mounted, styles, event, homeVars, runVars, roomVars>>

\* The page is left: the pane's cleanup runs (lines 138-146) and the state of
\* the components is dropped.
Unmount ==
  /\ mounted
  /\ mounted' = FALSE
  /\ LET c == Cleanup IN
       /\ live' = c.live
       /\ connectionStatus' = c.connectionStatus
       /\ isSynced' = c.isSynced
  /\ session' = NoSession /\ ydoc' = EmptyDoc /\ lastSync' = "none"
  /\ awareness' = NoAwareness
  /\ editor' = Null /\ firebaseRef' = Undefined /\ defaultValue' = DefaultCode("cpp")
  /\ lang' = "cpp" /\ routerReady' = FALSE /\ queryLang' = Undefined
  /\ baseRef' = FALSE /\ inputEditor' = FALSE
  /\ isRunning' = FALSE /\ result' = Null /\ pending' = {} /\ runs' = 0
  /\ lastOp' = "other"
  /\ href' = <<Page>>
  /\ UNCHANGED <<userRef, fileId, nextId, styles, event, roomVars>>

\* lines 120-125: a 'status' event of the live provider
Status(s) ==
  /\ session.id # 0
  /\ connectionStatus' = s
  /\ lastOp' = "other"
  /\ UNCHANGED <<mounted, depVars, isSynced, lastSync, ydoc, session, live, nextId,
                 presenceVars, homeVars, runVars, roomVars>>

\* lines 126-136: a 'sync' event of the live provider
Sync(b) ==
  /\ session.id # 0
  /\ ydoc' = OnSyncDoc(ydoc, b, session.defaultValue, Local)
  /\ isSynced' = b
  /\ lastSync' = IF b THEN "true" ELSE "false"
  /\ lastOp' = IF b THEN "syncT" ELSE "syncF"
  /\ UNCHANGED <<mounted, depVars, connectionStatus, session, live, nextId,
                 presenceVars, homeVars, runVars, roomVars>>

\* What other clients of the room may have written: the flag, and their inserts.
RemoteItem == [client |-> 1, clock |-> 0, content |-> "x", seen |-> {}]
RemoteDocs == { [flag |-> TRUE, items |-> {}], [flag |-> TRUE, items |-> {RemoteItem}] }

\* The provider applies an update of another client to the live document.
RemoteUpdate(d) ==
  /\ session.id # 0
  /\ Merge(ydoc, d) # ydoc
  /\ ydoc' = Merge(ydoc, d)
  /\ lastOp' = "other"
  /\ UNCHANGED <<mounted, depVars, connectionStatus, isSynced, lastSync, session, live,
                 nextId, presenceVars, homeVars, runVars, roomVars>>

\* The code pane and its session; the page is opened with the router ready.
NextPane ==
  \/ \E h \in {<<Page>>, <<Page, "?", "lang=", "java">>}, base \in BOOLEAN :
       Mount(h, TRUE, base)
  \/ \E e \in Editors : OnMount(e)
  \/ \E tab \in Languages : TabSelect(tab)
  \/ \E base \in BOOLEAN : SetBaseRef(base)
  \/ \E ur \in UserKeys \cup {Null}, fid \in FileIds \cup {Null} : SetAtoms(ur, fid)
  \/ Unmount
  \/ \E s \in Statuses : Status(s)
  \/ \E b \in BOOLEAN : Sync(b)
  \/ \E d \in RemoteDocs : RemoteUpdate(d)

SpecPane == Init /\ [][NextPane]_vars

\* The selected language, the router and the page URL.
NextLang ==
  \/ \E h \in Hrefs, ready \in BOOLEAN, base \in BOOLEAN : Mount(h, ready, base)
  \/ \E e \in Editors : OnMount(e)
  \/ \E tab \in Languages : TabSelect(tab)
  \/ RouterReady
  \/ \E base \in BOOLEAN : SetBaseRef(base)
  \/ \E ur \in UserKeys \cup {Null}, fid \in FileIds \cup {Null} : SetAtoms(ur, fid)
  \/ Unmount

SpecLang == Init /\ [][NextLang]_vars

\* ------------------------------------------------------- handleRunCode
\* line 255: language_id
LanguageId(l) == IF l = "cpp" THEN 54 ELSE IF l = "java" THEN 62 ELSE 71

\* line 246: both editors are mounted
CanRunCodeEditorOnly(ed, inp) == ed # Null

CanRun(ed, inp) == ed # Null /\ inp

\* How a fetch may end: "ok" a parsed body without error field and resp.ok;
\* "error" a body with an error field; "notOk" a status that is not ok;
\* "unparsable" resp.json() rejects; "rejected" fetch rejects; "undecodable" an
\* ok body with a field atob() throws on.
Outcomes == {"ok", "error", "notOk", "unparsable", "rejected", "undecodable"}

\* The judge's result for request r, as the string shown in the footer
\* (lines 440-444).
Judged(r) == "Accepted"

\* lines 272-290: result after the callbacks of request r ran
ResultAfter(res, outcome, r) == IF outcome = "ok" THEN Judged(r) ELSE res

\* lines 245-271: the run button is clicked
HandleRunCode ==
  /\ mounted
  /\ IF CanRun(editor, inputEditor)
     THEN /\ runs < MaxRuns
          /\ isRunning' = TRUE
          /\ result' = Null
          /\ runs' = runs + 1
          /\ pending' = {[r EXCEPT !.overlapped = TRUE] : r \in pending} \cup
                           {[id |-> runs + 1, language_id |-> LanguageId(lang),
                             overlapped |-> pending # {}]}
     ELSE UNCHANGED runVars
  /\ lastOp' = "run"
  /\ UNCHANGED <<mounted, depVars, sessionVars, styles, event, homeVars, roomVars>>

\* lines 272-291: the fetch of request r settles
Respond(r, outcome) ==
  /\ r \in pending
  /\ pending' = pending \ {r}
  /\ result' = ResultAfter(result, outcome, r)
  /\ isRunning' = FALSE
  /\ lastOp' = outcome
  /\ UNCHANGED <<mounted, depVars, sessionVars, styles, event, homeVars, runs,
                 roomVars>>

Settle == \E r \in pending, o \in Outcomes : Respond(r, o)

NextRun ==
  \/ \E base \in BOOLEAN : Mount(<<Page>>, TRUE, base)
  \/ \E e \in Editors : OnMount(e)
  \/ InputOnMount
  \/ \E tab \in Languages : TabSelect(tab)
  \/ HandleRunCode
  \/ Settle
  \/ Unmount

\* Every fetch settles: the browser resolves or rejects its promise.
SpecRun == Init /\ [][NextRun]_vars /\ WF_vars(Settle)

\* ------------------------------------------------------------ presence
\* The state of a remote client in the awareness: absent, present without a
\* cursorColor, or present with the cursorColor "blue".
AwStates == {"absent", "noColor", "blue"}

\* line 107: awarenessState.get(addedUserID)?.cursorColor ?? 'orange'
UserColorOrangeOnly(states, id) == "orange"

UserColor(states, id) ==
  IF states[id] \in {"absent", "noColor"} THEN "orange" ELSE states[id]

\* lines 95-116: the 'change' handler appends one rule per added id
RECURSIVE StylesAfter(_, _, _)
StylesAfter(stys, added, states) ==
  IF added = <<>> THEN stys
  ELSE StylesAfter(
         Append(stys, [target |-> Head(added), color |-> UserColor(states, Head(added))]),
         Tail(added), states)

\* The ids of S in ascending order.
RECURSIVE Ascending(_)
Ascending(S) ==
  IF S = {} THEN <<>>
  ELSE LET m == CHOOSE x \in S : \A y \in S : x <= y IN <<m>> \o Ascending(S \ {m})

\* The remote clients in the awareness of the live session take the states rs,
\* and it emits 'change' with the ids that appeared (added), changed (updated)
\* or disappeared (removed).
AwarenessChange(rs) ==
  /\ session.id # 0
  /\ LET st == [i \in DOMAIN awareness |-> IF i \in Remotes THEN rs[i] ELSE awareness[i]]
         added == Ascending({i \in DOMAIN st : awareness[i] = "absent" /\ st[i] # "absent"})
         others == \E i \in DOMAIN st :
                      awareness[i] # "absent" /\ st[i] # awareness[i]
     IN /\ st # awareness
        /\ Len(styles) + Len(added) <= MaxStyles
        /\ styles' = StylesAfter(styles, added, st)
        /\ event' = [added |-> added, others |-> others]
        /\ awareness' = st
  /\ lastOp' = "awareness"
  /\ UNCHANGED <<mounted, depVars, connectionStatus, isSynced, lastSync, ydoc, session,
                 live, nextId, homeVars, runVars, roomVars>>

NextPresence ==
  \/ Mount(<<Page>>, TRUE, TRUE)
  \/ OnMount("e1")
  \/ SetAtoms("u1", "f1")
  \/ \E rs \in [Remotes -> AwStates] : AwarenessChange(rs)
  \/ Unmount

SpecPresence == Init /\ [][NextPresence]_vars

\* --------------------------------------------- two clients of one file
\* line 378 and line 410: the defaultValue of the pane with key k
DefaultOfPane(k) == IF k = "input" THEN "" ELSE DefaultCode("cpp")

\* lines 56-63: client c opens pane k of file f1 with a new document
Join(c, k) ==
  /\ clients[c].room = ""
  /\ clients' = [clients EXCEPT ![c] =
       [room |-> DocumentId("f1", k), doc |-> EmptyDoc, dv |-> DefaultOfPane(k)]]
  /\ UNCHANGED <<editorVars, presenceVars, homeVars, runVars, server>>

\* lines 126-136: the relay's state of the room reaches client c, whose provider
\* then emits sync(true)
SyncClient(c) ==
  /\ clients[c].room # ""
  /\ clients' = [clients EXCEPT ![c].doc =
       OnSyncDoc(Merge(@, server[clients[c].room]), TRUE, clients[c].dv, c)]
  /\ clients' # clients
  /\ UNCHANGED <<editorVars, presenceVars, homeVars, runVars, server>>

\* The updates of client c reach the relay.
Push(c) ==
  /\ clients[c].room # ""
  /\ server' = [server EXCEPT ![clients[c].room] = Merge(@, clients[c].doc)]
  /\ server' # server
  /\ UNCHANGED <<editorVars, presenceVars, homeVars, runVars, clients>>

\* An update the relay broadcasts reaches client c.
Pull(c) ==
  /\ clients[c].room # ""
  /\ clients' = [clients EXCEPT ![c].doc = Merge(@, server[clients[c].room])]
  /\ clients' # clients
  /\ UNCHANGED <<editorVars, presenceVars, homeVars, runVars, server>>

\* lines 138-146: client c closes the pane
Leave(c) ==
  /\ clients[c].room # ""
  /\ clients' = [clients EXCEPT ![c] = [room |-> "", doc |-> EmptyDoc, dv |-> ""]]
  /\ UNCHANGED <<editorVars, presenceVars, homeVars, runVars, server>>

NextRoom ==
  \/ \E c \in Remotes, k \in RoomPanes : Join(c, k)
  \/ \E c \in Remotes : SyncClient(c)
  \/ \E c \in Remotes : Push(c)
  \/ \E c \in Remotes : Pull(c)
  \/ \E c \in Remotes : Leave(c)

SpecRoom == Init /\ [][NextRoom]_vars

\* ------------------------------------------------- the pane's session
\* The session of the last effect run is live, i.e. created and not destroyed.
HasLiveSession == session.id # 0 /\ session.id \in live

\* A dependency of the effect is missing.
DepMissing ==
  firebaseRef = Undefined \/ editor = Null \/ userRef = Null \/ fileId = Null

\* The inserts of this client in the live document.
LocalItems == {i \in ydoc.items : i.client = Local}

\* C1: the editor is read-only unless the live session's most recent 'sync'
\* event carried true: so before any session, after sync(false), and from the
\* teardown of a session until its replacement reports sync(true).
C1_ReadOnlyUntilSynced ==
  ~EditorReadOnly => HasLiveSession /\ lastSync = "true"

\* C1 witness: a replacement session (not the first one) has reported
\* sync(true) and the editor is editable again.
C1_Witness ==
  session.id > 1 /\ HasLiveSession /\ lastSync = "true" /\ ~EditorReadOnly

\* C2: at most one session of the pane is live at any time, it is the one the
\* last effect run created (every earlier one was destroyed before), and none
\* is live once the pane is unmounted.
C2_OneLiveSession ==
  /\ Cardinality(live) <= 1
  /\ live \subseteq {session.id}
  /\ (~mounted => live = {})
  /\ \A i \in 1..(nextId - 1) : i # session.id => i \notin live

\* C2 witness: the second session is live and the first one is destroyed.
C2_Witness == session.id = 2 /\ live = {2} /\ mounted

\* C3: the room of a session is fileId, a dot and the key of firebaseRef, and
\* depends on nothing else; the four panes of a file have four distinct rooms;
\* the code pane's live session is the room of the selected language only.
C3_RoomOfPane ==
  /\ HasLiveSession =>
       /\ session.documentId = fileId \o "." \o firebaseRef
       /\ session.documentId = fileId \o ".editor-" \o lang
       /\ live = {session.id}
  /\ \A f \in FileIds : \A k1 \in PaneKeys, k2 \in PaneKeys :
       k1 # k2 => DocumentId(f, k1) # DocumentId(f, k2)
  /\ Cardinality(PaneKeys) = 4

\* C3 witness: after tab selections a later session is live in the room of py.
C3_Witness ==
  HasLiveSession /\ session.id > 1 /\ lang = "py" /\ lastOp = "tab"
  /\ session.documentId = "f1.editor-py"

\* C5: a sync(true) event that finds the flag unset sets it and inserts the
\* pane's defaultValue at position 0; a sync event that finds the flag set, or
\* carries false, changes neither flag nor text; so this client's inserts into
\* one document never exceed one.
C5_SyncInitializesOnce ==
  [][ /\ (lastOp' = "syncT" /\ ~ydoc.flag) =>
           /\ ydoc'.flag
           /\ TextString(ydoc') = OrEmpty(defaultValue) \o TextString(ydoc)
      /\ ((lastOp' = "syncT" /\ ydoc.flag) \/ lastOp' = "syncF") => ydoc' = ydoc
      /\ Cardinality(LocalItems') <= 1 ]_vars

\* C5 witness: the default content was inserted and a later sync event was
\* delivered to the same document.
C5_Witness ==
  lastOp = "syncF" /\ ydoc.flag /\ Cardinality(LocalItems) = 1
  /\ TextString(ydoc) = defaultValue

\* C6: while firebaseRef, the editor, the user reference or fileId is missing,
\* no session exists, connectionStatus is 'disconnected' and isSynced is false.
C6_NoSessionWhileDepMissing ==
  DepMissing =>
    /\ session = NoSession /\ live = {}
    /\ connectionStatus = "disconnected" /\ ~isSynced

\* C6 witness: a session existed, then firebaseRef alone went missing.
C6_Witness ==
  /\ mounted /\ nextId > 1 /\ firebaseRef = Undefined
  /\ editor # Null /\ userRef # Null /\ fileId # Null

\* ------------------------------------------- the selected language
\* A step in which the lang reducer ran: a tab selection, or the router effect
\* adopting a valid `lang` parameter.
ReducerRan ==
  \/ lastOp' = "tab"
  \/ lastOp' = "router" /\ ValidLang(queryLang)
  \/ lastOp' = "mount" /\ routerReady' /\ ValidLang(queryLang')

\* The language part of C8: lang starts as 'cpp' and is always one of the three;
\* it changes only by a tab selection or by the adoption of the `lang` query
\* parameter, which happens when the router becomes ready (at the opening of the
\* page or later, once) and only for one of the three values.
LangRule ==
  /\ lang' \in Languages
  /\ (lastOp' = "mount" =>
        lang' = IF routerReady' /\ ValidLang(queryLang') THEN queryLang' ELSE "cpp")
  /\ (lastOp' = "router" =>
        /\ ~routerReady /\ routerReady'
        /\ lang' = IF ValidLang(queryLang) THEN queryLang ELSE lang)
  /\ (mounted' /\ lang' # lang => lastOp' \in {"tab", "router", "mount"})

\* C8: the language rule, and after every run of the reducer the query string
\* of the page URL is exactly ?lang=<selected language>.
C8_LangAndQuery ==
  [][ LangRule /\ (ReducerRan => Search(href') = <<"?", "lang=", lang'>>) ]_vars

\* C8 without the URL part.
C8_LangRule == [][LangRule]_vars

\* ------------------------------------------------------------ presence
\* C4: a 'change' event appends exactly one rule per id of `added`, in order,
\* each for that id and with its cursorColor in the awareness at that moment,
\* or 'orange' without one; an event with no added id appends nothing; no other
\* step touches the rules, so none is ever removed.
C4_OneRulePerAdded ==
  [][ /\ (lastOp' = "awareness" =>
            /\ Len(styles') = Len(styles) + Len(event'.added)
            /\ \A i \in 1..Len(event'.added) :
                 LET id == event'.added[i] IN
                 styles'[Len(styles) + i] =
                   [target |-> id,
                    color |-> IF awareness'[id] = "blue" THEN "blue" ELSE "orange"])
      /\ Len(styles') >= Len(styles)
      /\ SubSeq(styles', 1, Len(styles)) = styles
      /\ (lastOp' # "awareness" => styles' = styles) ]_vars

\* C4 witness: rules for a client with and a client without cursorColor were
\* appended, and the last event added nobody.
C4_Witness ==
  /\ lastOp = "awareness" /\ event.added = <<>> /\ event.others
  /\ \E i \in 1..Len(styles) : styles[i].color = "orange"
  /\ \E i \in 1..Len(styles) : styles[i].color = "blue"

\* ------------------------------------------------------- handleRunCode
Failures == Outcomes \ {"ok"}

Sent(n) == \E r \in pending : r.id = n

C9_SingleDefaultCopy ==
  /\ \A r \in Rooms : Cardinality(server[r].items) <= 1
  /\ \A c \in Remotes : Cardinality(clients[c].doc.items) <= 1

====
